---- MODULE Spec2Model ----
(***************************************************************************)
(* Model of the MQTT_Client Arduino sketch (Arduino/MQTT_Client/           *)
(* MQTT_Client.ino): setup(), loop(), the connection routines, the status  *)
(* publishers, the command dispatcher and the periodic status check.       *)
(* The WiFi module, the broker link, the analog input and the result of    *)
(* each library call (connect, publish, subscribe) are the environment.    *)
(***************************************************************************)
EXTENDS Integers, Sequences, FiniteSets, TLC

VARIABLES
    pc,                \* position of the single thread of control in setup()/loop()
    wifiModule,        \* WiFi.status() # WL_NO_MODULE (hardware present)
    wifiUp,            \* WiFi.status() = WL_CONNECTED
    brokerUp,          \* mqttClient.connected()
    subscribed,        \* the broker holds the subscription <id>/command/# for this session
    ledPin,            \* level of LED_BUILTIN
    previousLEDValue,  \* global, line 105
    previousA0Value,   \* global, line 106
    connectAttempts,   \* failed connect attempts of connectMQTTBroker(), from its call
                       \* to the statement after its return
    ev,                \* operations performed by the last step, in order
    chkA0,             \* the last A0 check: its publish failed, and on which reading;
                       \* retry: the step just made is an A0 check repeating a failed one
    chkLED,            \* the same for the LED check
    okSince,           \* per latch: the last check's publish failed and one succeeded since
    pubFailed,         \* per latch: a publish failed since the last check, none succeeded after
    lit,               \* "no", or since an "on" command lit the LED from off with
                       \* previousLEDValue LOW: "acked" once "on" was published, else "unacked"
    subPending,        \* connected since the last call of mqttSubscribeToCommands()
    lastPub,           \* per latch: payload of the last successful publish, <<>> if none
    dispatched,        \* latch whose status the dispatcher tried to publish in this
                       \* iteration of loop(), "none" otherwise and after the LED check
    allOk              \* no publish attempt has failed so far

vars == <<pc, wifiModule, wifiUp, brokerUp, subscribed, ledPin, previousLEDValue,
          previousA0Value, connectAttempts, ev, chkA0, chkLED, okSince, pubFailed,
          lit, subPending, lastPub, dispatched, allOk>>

(***************************************************************************)
(* Bounds and program constants                                            *)
(***************************************************************************)
MaxAttempts == 2

LOW == 0

HIGH == 1

A0Threshold == 100

\* Readings analogRead(A0) can return (10-bit converter), chosen around the threshold.
A0Samples == {0, 100, 101, 1023}

Latches == {"A0", "LED"}

(***************************************************************************)
(* C strings: arrays of character codes, terminated by 0                   *)
(***************************************************************************)
RECURSIVE CStr(_)
CStr(a) ==
    IF a = <<>> \/ Head(a) = 0 THEN <<>> ELSE <<Head(a)>> \o CStr(Tail(a))

strcmp(a, b) == IF CStr(a) = CStr(b) THEN 0 ELSE 1

RECURSIVE itoa(_)
itoa(n) ==
    IF n < 10 THEN <<48 + n>> ELSE itoa(n \div 10) \o <<48 + (n % 10)>>

StrGet == <<103, 101, 116, 0>>

StrOn == <<111, 110, 0>>

StrOff == <<111, 102, 102, 0>>

\* Payload bytes a broker can deliver: the three commands, and others.
Payloads ==
    { <<103, 101, 116>>, <<111, 110>>, <<111, 102, 102>>,
      <<>>, <<71, 69, 84>>, <<111>>, <<111, 110, 101>>, <<103, 101, 116, 0, 120>> }

(***************************************************************************)
(* Topics: sequences of levels; strcat appends the suffix to the client id *)
(***************************************************************************)
MQTTClientID == <<"Arduino">>

commandA0 == MQTTClientID \o <<"command", "A0">>

commandLED == MQTTClientID \o <<"command", "LED">>

statusA0Topic == MQTTClientID \o <<"status", "A0">>

\* Mutation of statusLEDTopic: the LED status goes to the LED command topic.
statusLEDTopicOnCommand == commandLED

statusLEDTopic == MQTTClientID \o <<"status", "LED">>

commandFilter == MQTTClientID \o <<"command", "#">>

StatusTopic(l) == IF l = "A0" THEN statusA0Topic ELSE statusLEDTopic

\* MQTT topic-filter match of the broker; "#" matches every remaining level.
RECURSIVE Matches(_, _)
Matches(topic, filter) ==
    IF filter = <<>> THEN topic = <<>>
    ELSE IF Head(filter) = "#" THEN TRUE
    ELSE IF topic = <<>> THEN FALSE
    ELSE Head(topic) = Head(filter) /\ Matches(Tail(topic), Tail(filter))

\* Topics on which some client may publish.
TopicSamples ==
    { commandA0, commandLED,
      MQTTClientID \o <<"command", "X">>,
      MQTTClientID \o <<"command">>,
      MQTTClientID \o <<"command", "LED", "x">>,
      statusA0Topic, statusLEDTopic,
      <<"Other", "command", "A0">> }

(***************************************************************************)
(* Operations a program step performs, recorded in ev                      *)
(***************************************************************************)
\* op is "pub" (val 1: retain = true), "sub" (val: the QoS), "write" (val: the
\* level written to LED_BUILTIN), "recv" (a command handed to the callback),
\* "readA0" or "readLED" (val: what the periodic check read from the pin);
\* wifi and broker are the state of the two links when the operation is made.
Event(op, topic, payload, val, ok) ==
    [op |-> op, topic |-> topic, payload |-> payload, val |-> val, ok |-> ok,
     wifi |-> wifiUp, broker |-> brokerUp]

\* mqttClient.publish(topic, status, true) and mqttClient.subscribe(topic, 1)
\* return false when the client is not connected, and may fail otherwise.
CallOutcomes == {ok \in BOOLEAN : ok => brokerUp}

Abs(x) == IF x < 0 THEN -x ELSE x

Pubs(events, l) ==
    {i \in DOMAIN events : events[i].op = "pub" /\ events[i].topic = StatusTopic(l)}

PubTried(events, l) == Pubs(events, l) # {}

PubOk(events, l) == \E i \in Pubs(events, l) : events[i].ok

\* The payload of the last successful publish of latch l among events.
LastOk(events, l) ==
    LET oks == {i \in Pubs(events, l) : events[i].ok}
    IN  events[CHOOSE i \in oks : \A j \in oks : j <= i].payload

\* Mutation of mqttPublishA0Status: previousA0Value is updated whatever publish returns.
mqttPublishA0StatusAlways(v, ok) ==
    [events |-> <<Event("pub", statusA0Topic, itoa(v), 1, ok)>>,
     prevA0 |-> v]

\* mqttPublishA0Status(): v is the reading of line 272, ok the result of publish.
mqttPublishA0Status(v, ok) ==
    [events |-> <<Event("pub", statusA0Topic, itoa(v), 1, ok)>>,
     prevA0 |-> IF ok THEN v ELSE previousA0Value]

\* Mutation of mqttPublishLEDStatus: previousLEDValue is never updated.
mqttPublishLEDStatusNoCache(led, ok) ==
    [events |-> <<Event("pub", statusLEDTopic,
                        CStr(IF led = HIGH THEN StrOn ELSE StrOff), 1, ok)>>,
     prevLED |-> previousLEDValue]

\* Mutation of mqttPublishLEDStatus: previousLEDValue is updated whatever
\* publish returns.
mqttPublishLEDStatusAlways(led, ok) ==
    [events |-> <<Event("pub", statusLEDTopic,
                        CStr(IF led = HIGH THEN StrOn ELSE StrOff), 1, ok)>>,
     prevLED |-> led]

\* mqttPublishLEDStatus(): led is the level digitalRead(LED_BUILTIN) returns.
mqttPublishLEDStatus(led, ok) ==
    [events |-> <<Event("pub", statusLEDTopic,
                        CStr(IF led = HIGH THEN StrOn ELSE StrOff), 1, ok)>>,
     prevLED |-> IF ok THEN led ELSE previousLEDValue]

\* Mutation of Command: the first branch tests the message only.
CommandAnyTopicGet(topic, message) ==
    IF strcmp(message, StrGet) = 0 THEN "A0get"
    ELSE IF topic = commandLED /\ strcmp(message, StrOn) = 0 THEN "LEDon"
    ELSE IF topic = commandLED /\ strcmp(message, StrOff) = 0 THEN "LEDoff"
    ELSE "unknown"

\* Mutation of Command: "get" on the LED topic takes the branch of "on".
CommandLEDGetAsOn(topic, message) ==
    IF topic = commandA0 /\ strcmp(message, StrGet) = 0 THEN "A0get"
    ELSE IF topic = commandLED /\ strcmp(message, StrGet) = 0 THEN "LEDon"
    ELSE IF topic = commandLED /\ strcmp(message, StrOn) = 0 THEN "LEDon"
    ELSE IF topic = commandLED /\ strcmp(message, StrOff) = 0 THEN "LEDoff"
    ELSE "unknown"

\* The if/else chain of mqttCommandReceived(): which branch a command takes.
Command(topic, message) ==
    IF topic = commandA0 /\ strcmp(message, StrGet) = 0 THEN "A0get"
    ELSE IF topic = commandLED /\ strcmp(message, StrGet) = 0 THEN "LEDget"
    ELSE IF topic = commandLED /\ strcmp(message, StrOn) = 0 THEN "LEDon"
    ELSE IF topic = commandLED /\ strcmp(message, StrOff) = 0 THEN "LEDoff"
    ELSE "unknown"

\* Mutation of mqttCommandReceived: the "on" branch reports both statuses.
mqttCommandReceivedBoth(topic, payload, v, ok) ==
    LET recv == <<Event("recv", topic, payload, 0, TRUE)>>
    IN  IF Command(topic, payload \o <<0>>) = "LEDon"
        THEN [events |-> recv \o <<Event("write", <<>>, <<>>, HIGH, TRUE)>>
                              \o mqttPublishLEDStatus(HIGH, ok).events
                              \o mqttPublishA0Status(v, ok).events,
              led |-> HIGH,
              prevA0 |-> mqttPublishA0Status(v, ok).prevA0,
              prevLED |-> mqttPublishLEDStatus(HIGH, ok).prevLED]
        ELSE [events |-> recv, led |-> ledPin,
              prevA0 |-> previousA0Value, prevLED |-> previousLEDValue]

\* mqttCommandReceived(topic, payload, length): message is the payload with a
\* terminating 0 appended; v and ok are the reading and the publish result of
\* the status publisher the branch calls.
mqttCommandReceived(topic, payload, v, ok) ==
    LET message == payload \o <<0>>
        cmd == Command(topic, message)
        recv == <<Event("recv", topic, payload, 0, TRUE)>>
        same == [events |-> recv, led |-> ledPin,
                 prevA0 |-> previousA0Value, prevLED |-> previousLEDValue]
    IN  CASE cmd = "A0get" ->
               [same EXCEPT !.events = recv \o mqttPublishA0Status(v, ok).events,
                            !.prevA0 = mqttPublishA0Status(v, ok).prevA0]
          [] cmd = "LEDget" ->
               [same EXCEPT !.events = recv \o mqttPublishLEDStatus(ledPin, ok).events,
                            !.prevLED = mqttPublishLEDStatus(ledPin, ok).prevLED]
          [] cmd = "LEDon" ->
               [same EXCEPT !.events = recv \o <<Event("write", <<>>, <<>>, HIGH, TRUE)>>
                                            \o mqttPublishLEDStatus(HIGH, ok).events,
                            !.led = HIGH,
                            !.prevLED = mqttPublishLEDStatus(HIGH, ok).prevLED]
          [] cmd = "LEDoff" ->
               [same EXCEPT !.events = recv \o <<Event("write", <<>>, <<>>, LOW, TRUE)>>
                                            \o mqttPublishLEDStatus(LOW, ok).events,
                            !.led = LOW,
                            !.prevLED = mqttPublishLEDStatus(LOW, ok).prevLED]
          [] OTHER -> same

\* Mutation of A0Changed: the threshold is one too high.
A0ChangedCoarse(current, previous) == Abs(current - previous) > A0Threshold + 1

\* Mutation of A0Changed: >= in place of >.
A0ChangedInclusive(current, previous) == Abs(current - previous) >= A0Threshold

\* The threshold comparison of line 202.
A0Changed(current, previous) == Abs(current - previous) > A0Threshold

\* The comparison of line 208.
LEDChanged(current, previous) == current # previous

\* mqttSubscribeToCommands(): ok is the result of mqttClient.subscribe(topic, 1).
mqttSubscribeToCommands(ok) ==
    [events |-> <<Event("sub", commandFilter, <<>>, 1, ok)>>,
     subscribed |-> IF ok THEN TRUE ELSE subscribed]

\* Mutation of ConnectLoopNext: if in place of while, a single attempt.
ConnectLoopNextOnce(from, to, connected) == to

\* while (!mqttClient.connected()) of connectMQTTBroker(): where control goes
\* after one pass, from and to being the routine's position and its return.
ConnectLoopNext(from, to, connected) == IF connected THEN to ELSE from

\* loop(), lines 363-366: where control goes after the connection test.
LoopAfterCheck(connected) == IF connected THEN "loop_pump" ELSE "loop_connect"

\* Mutation of LoopAfterConnect: loop() reconnects without subscribing again.
LoopAfterConnectNoSubscribe == "loop_pump"

\* loop(), lines 364-365: the statement that follows connectMQTTBroker().
LoopAfterConnect == "loop_sub"

Min(a, b) == IF a < b THEN a ELSE b

(***************************************************************************)
(* Initial state: reset, globals initialised, before setup() line 346      *)
(***************************************************************************)
NoCheck == [failed |-> FALSE, read |-> 0, retry |-> FALSE]

\* What a periodic check leaves in chkA0 or chkLED, last being what the check
\* before it left: the attempt is a retry when that one failed on the same reading.
Checked(last, current, attempted, ok) ==
    [failed |-> attempted /\ ~ok,
     read |-> IF attempted /\ ~ok THEN current ELSE 0,
     retry |-> last.failed /\ last.read = current /\ attempted]

Init ==
    /\ pc = "setup_wifi"
    /\ wifiModule \in BOOLEAN
    /\ wifiUp = FALSE
    /\ brokerUp = FALSE
    /\ subscribed = FALSE
    /\ ledPin = LOW
    /\ previousLEDValue = LOW
    /\ previousA0Value = 0
    /\ connectAttempts = 0
    /\ ev = <<>>
    /\ chkA0 = NoCheck
    /\ chkLED = NoCheck
    /\ okSince = [l \in Latches |-> FALSE]
    /\ pubFailed = [l \in Latches |-> FALSE]
    /\ lit = "no"
    /\ subPending = FALSE
    /\ lastPub = [l \in Latches |-> <<>>]
    /\ dispatched = "none"
    /\ allOk = TRUE

linkVars == <<wifiModule, wifiUp, brokerUp, subscribed, subPending>>

pinVars == <<ledPin, previousLEDValue, previousA0Value>>

histVars == <<chkA0, chkLED, okSince, pubFailed, lit, lastPub, dispatched, allOk>>

\* The next step is no longer the check itself.
ClearRetry(c) == [c EXCEPT !.retry = FALSE]

\* The last periodic check of latch l attempted its publish, which failed.
CheckFailed(l) == IF l = "A0" THEN chkA0.failed ELSE chkLED.failed

\* A program step that goes to newpc, having performed events and left the pin
\* and the two globals as given; checked is the latch a periodic check examined,
\* lighting says that the step is an "on" command lighting the LED from off.
Apply(newpc, events, led, pA0, pLED, checked, lighting) ==
    /\ pc' = newpc
    /\ ev' = events
    /\ ledPin' = led
    /\ previousA0Value' = pA0
    /\ previousLEDValue' = pLED
    /\ okSince' = [l \in Latches |->
                     IF l = checked THEN FALSE
                     ELSE IF PubOk(events, l) /\ CheckFailed(l) THEN TRUE ELSE okSince[l]]
    /\ pubFailed' = [l \in Latches |->
                       IF l = checked THEN FALSE
                       ELSE IF PubTried(events, l) THEN ~PubOk(events, l)
                       ELSE pubFailed[l]]
    /\ lit' = IF led = LOW THEN "no"
              ELSE IF lighting \/ lit = "unacked"
                   THEN (IF PubOk(events, "LED") THEN "acked" ELSE "unacked")
              ELSE lit
    /\ lastPub' = [l \in Latches |->
                     IF PubOk(events, l) THEN LastOk(events, l) ELSE lastPub[l]]
    /\ dispatched' = IF \E i \in DOMAIN events : events[i].op = "recv"
                     THEN (IF PubTried(events, "A0") THEN "A0"
                           ELSE IF PubTried(events, "LED") THEN "LED" ELSE "none")
                     ELSE IF checked = "LED" THEN "none" ELSE dispatched
    /\ allOk' = (allOk /\ \A l \in Latches : \A i \in Pubs(events, l) : events[i].ok)

(***************************************************************************)
(* Environment: the two links                                              *)
(***************************************************************************)
\* The WiFi module associates once WiFi.begin() has been called.
WiFiLinkUp ==
    /\ wifiModule /\ ~wifiUp
    /\ pc \notin {"setup_wifi", "halt"}
    /\ wifiUp' = TRUE
    /\ ev' = <<>>
    /\ UNCHANGED <<pc, wifiModule, brokerUp, subscribed, subPending,
                   pinVars, connectAttempts, histVars>>

\* The WiFi link drops, and the broker connection it carries with it.
WiFiDrop ==
    /\ wifiUp
    /\ wifiUp' = FALSE
    /\ brokerUp' = FALSE
    /\ subscribed' = FALSE
    /\ ev' = <<>>
    /\ UNCHANGED <<pc, wifiModule, subPending,
                   pinVars, connectAttempts, histVars>>

\* The broker connection drops; the session and its subscription are gone.
BrokerDrop ==
    /\ brokerUp
    /\ brokerUp' = FALSE
    /\ subscribed' = FALSE
    /\ ev' = <<>>
    /\ UNCHANGED <<pc, wifiModule, wifiUp, subPending,
                   pinVars, connectAttempts, histVars>>

(***************************************************************************)
(* connectWiFiNetwork(), called by setup() line 346                        *)
(***************************************************************************)
\* Lines 164-165 without the while (true) of line 166: the function goes on.
WiFiNoModuleGoesOn ==
    /\ pc = "setup_wifi" /\ ~wifiModule
    /\ pc' = "wifi_poll"
    /\ ev' = <<>>
    /\ UNCHANGED <<linkVars, pinVars, connectAttempts, histVars>>

\* Lines 164-166: no module, while (true).
WiFiNoModule ==
    /\ pc = "setup_wifi" /\ ~wifiModule
    /\ pc' = "halt"
    /\ ev' = <<>>
    /\ UNCHANGED <<linkVars, pinVars, connectAttempts, histVars>>

\* Lines 167-186: module found, WiFi.begin().
WiFiBegin ==
    /\ pc = "setup_wifi" /\ wifiModule
    /\ pc' = "wifi_poll"
    /\ ev' = <<>>
    /\ UNCHANGED <<linkVars, pinVars, connectAttempts, histVars>>

\* Lines 187-191: the polling loop ends once the status is WL_CONNECTED; until
\* then each pass only waits a second and leaves the state as it is.
WiFiPoll ==
    /\ pc = "wifi_poll" /\ wifiUp
    /\ pc' = "setup_connect"
    /\ ev' = <<>>
    /\ connectAttempts' = 0
    /\ UNCHANGED <<linkVars, pinVars, histVars>>

(***************************************************************************)
(* connectMQTTBroker(), called by setup() line 347 and loop() line 364     *)
(***************************************************************************)
\* One pass of the while loop of lines 143-155: the test, and when it finds the
\* client disconnected one mqttClient.connect(), which the broker accepts or not.
connectMQTTBroker(from, to) ==
    /\ pc = from
    /\ ev' = <<>>
    /\ IF brokerUp
       THEN /\ pc' = ConnectLoopNext(from, to, TRUE)
            /\ UNCHANGED <<linkVars, connectAttempts>>
       ELSE \E accepted \in {a \in BOOLEAN : a => wifiUp} :
            /\ brokerUp' = accepted
            /\ pc' = ConnectLoopNext(from, to, accepted)
            /\ subPending' = (accepted \/ subPending)
            /\ connectAttempts' =
                  IF accepted THEN connectAttempts
                  ELSE Min(connectAttempts + 1, MaxAttempts)
            /\ UNCHANGED <<wifiModule, wifiUp, subscribed>>
    /\ UNCHANGED <<pinVars, histVars>>

\* Mutation of SetupConnect: setup() subscribes right after connecting.
SetupConnectThenSubscribe == connectMQTTBroker("setup_connect", "setup_sub")

SetupConnect == connectMQTTBroker("setup_connect", "setup_pubA0")

LoopConnect == connectMQTTBroker("loop_connect", LoopAfterConnect)

(***************************************************************************)
(* setup(), lines 349-354                                                  *)
(***************************************************************************)
SetupPublishA0 ==
    /\ pc = "setup_pubA0"
    /\ \E v \in A0Samples, ok \in CallOutcomes :
          LET r == mqttPublishA0Status(v, ok)
          IN  Apply("setup_pubLED", r.events, ledPin, r.prevA0, previousLEDValue,
                    "none", FALSE)
    /\ connectAttempts' = 0
    /\ UNCHANGED <<linkVars, chkA0, chkLED>>

SetupPublishLED ==
    /\ pc = "setup_pubLED"
    /\ \E ok \in CallOutcomes :
          LET r == mqttPublishLEDStatus(ledPin, ok)
          IN  Apply("setup_sub", r.events, ledPin, previousA0Value, r.prevLED,
                    "none", FALSE)
    /\ UNCHANGED <<linkVars, connectAttempts, chkA0, chkLED>>

\* A call of mqttSubscribeToCommands() at position from, going on at to.
Subscribe(from, to) ==
    /\ pc = from
    /\ \E ok \in CallOutcomes :
          LET r == mqttSubscribeToCommands(ok)
          IN  /\ Apply(to, r.events, ledPin, previousA0Value, previousLEDValue,
                       "none", FALSE)
              /\ subscribed' = r.subscribed
    /\ subPending' = FALSE
    /\ connectAttempts' = 0
    /\ UNCHANGED <<wifiModule, wifiUp, brokerUp, chkA0, chkLED>>

SetupSubscribe == Subscribe("setup_sub", "loop_check")

(***************************************************************************)
(* loop(), lines 361-373                                                   *)
(***************************************************************************)
\* Line 363: if (!mqttClient.connected()).
LoopCheck ==
    /\ pc = "loop_check"
    /\ pc' = LoopAfterCheck(brokerUp)
    /\ ev' = <<>>
    /\ connectAttempts' = 0
    /\ chkLED' = ClearRetry(chkLED)
    /\ UNCHANGED <<linkVars, pinVars, chkA0, okSince, pubFailed, lit, lastPub,
                   dispatched, allOk>>

LoopSubscribe == Subscribe("loop_sub", "loop_pump")

\* Line 369, mqttClient.loop() with nothing to read, or while disconnected.
PumpIdle ==
    /\ pc = "loop_pump"
    /\ pc' = "loop_statusA0"
    /\ ev' = <<>>
    /\ UNCHANGED <<linkVars, pinVars, connectAttempts, histVars>>

\* Line 369, mqttClient.loop() reads one message the broker forwarded under the
\* subscription and calls mqttCommandReceived() with it.
PumpDispatch ==
    /\ pc = "loop_pump"
    /\ brokerUp /\ subscribed
    /\ \E topic \in {t \in TopicSamples : Matches(t, commandFilter)},
          payload \in Payloads :
       \* the reading matters to the A0 "get" branch only, the publish result
       \* to the branches that publish
       \E v \in {a \in A0Samples : Command(topic, payload \o <<0>>) = "A0get" \/ a = 0},
          ok \in {o \in CallOutcomes : Command(topic, payload \o <<0>>) # "unknown" \/ ~o} :
          LET r == mqttCommandReceived(topic, payload, v, ok)
              lighting == /\ Command(topic, payload \o <<0>>) = "LEDon"
                          /\ ledPin = LOW /\ previousLEDValue = LOW
          IN  Apply("loop_statusA0", r.events, r.led, r.prevA0, r.prevLED, "none",
                    lighting)
    /\ UNCHANGED <<linkVars, connectAttempts, chkA0, chkLED>>

\* mqttCheckAndReportStatus(), lines 200-204: current is the reading of line 201,
\* v and ok the reading and the publish result inside mqttPublishA0Status().
CheckA0 ==
    /\ pc = "loop_statusA0"
    /\ \E current \in A0Samples :
          LET read == <<Event("readA0", <<>>, <<>>, current, TRUE)>>
          IN  IF A0Changed(current, previousA0Value)
              THEN \E v \in A0Samples, ok \in CallOutcomes :
                   LET r == mqttPublishA0Status(v, ok)
                   IN  /\ Apply("loop_statusLED", read \o r.events, ledPin, r.prevA0,
                                previousLEDValue, "A0", FALSE)
                       /\ chkA0' = Checked(chkA0, current, TRUE, ok)
              ELSE /\ Apply("loop_statusLED", read, ledPin, previousA0Value,
                            previousLEDValue, "A0", FALSE)
                   /\ chkA0' = Checked(chkA0, current, FALSE, FALSE)
    /\ UNCHANGED <<linkVars, connectAttempts, chkLED>>

\* mqttCheckAndReportStatus(), lines 206-210.
CheckLED ==
    /\ pc = "loop_statusLED"
    /\ LET current == ledPin
           read == <<Event("readLED", <<>>, <<>>, current, TRUE)>>
       IN  IF LEDChanged(current, previousLEDValue)
           THEN \E ok \in CallOutcomes :
                LET r == mqttPublishLEDStatus(ledPin, ok)
                IN  /\ Apply("loop_check", read \o r.events, ledPin, previousA0Value,
                             r.prevLED, "LED", FALSE)
                    /\ chkLED' = Checked(chkLED, current, TRUE, ok)
           ELSE /\ Apply("loop_check", read, ledPin, previousA0Value,
                         previousLEDValue, "LED", FALSE)
                /\ chkLED' = Checked(chkLED, current, FALSE, FALSE)
    /\ chkA0' = ClearRetry(chkA0)
    /\ UNCHANGED <<linkVars, connectAttempts>>

(***************************************************************************)
(* Specifications                                                          *)
(***************************************************************************)
Environment == WiFiLinkUp \/ WiFiDrop \/ BrokerDrop

Program ==
    \/ WiFiNoModule \/ WiFiBegin \/ WiFiPoll
    \/ SetupConnect \/ SetupPublishA0 \/ SetupPublishLED \/ SetupSubscribe
    \/ LoopCheck \/ LoopConnect \/ LoopSubscribe
    \/ PumpIdle \/ PumpDispatch \/ CheckA0 \/ CheckLED

Next == Program \/ Environment

Spec == Init /\ [][Next]_vars

\* The broker accepts a connect attempt of connectMQTTBroker().
ConnectAccepted == (SetupConnect \/ LoopConnect) /\ brokerUp'

\* The processor keeps executing the sketch, and a broker that is asked again
\* and again while the WiFi link is up accepts in the end.
FairSpec == Spec /\ WF_vars(Program) /\ SF_vars(ConnectAccepted)

(***************************************************************************)
(* Steps and operations the properties speak about                         *)
(***************************************************************************)
Ops(events, op) == {i \in DOMAIN events : events[i].op = op}

\* The step is a call of mqttCommandReceived() by mqttClient.loop().
DispatchStep == pc = "loop_pump" /\ Ops(ev', "recv") # {}

\* The steps of mqttCheckAndReportStatus().
CheckA0Step == pc = "loop_statusA0" /\ pc' = "loop_statusLED"

CheckLEDStep == pc = "loop_statusLED" /\ pc' = "loop_check"

\* The four (topic, message) pairs of the dispatch table, messages as C strings.
Recognized ==
    { <<commandA0, CStr(StrGet)>>, <<commandLED, CStr(StrGet)>>,
      <<commandLED, CStr(StrOn)>>, <<commandLED, CStr(StrOff)>> }

\* The decimal number a status payload spells.
RECURSIVE atoi(_)
atoi(str) ==
    IF str = <<>> THEN 0
    ELSE 10 * atoi(SubSeq(str, 1, Len(str) - 1)) + (str[Len(str)] - 48)

(***************************************************************************)
(* C1. A publish or subscribe attempt is made only while both the WiFi     *)
(* link and the broker link are active.                                    *)
(***************************************************************************)
C1_AttemptsOnlyWhileLinked ==
    \A i \in DOMAIN ev :
        ev[i].op \in {"pub", "sub"} => ev[i].wifi /\ ev[i].broker

(***************************************************************************)
(* C2. After a reconnect, mqttSubscribeToCommands() is called before       *)
(* mqttClient.loop() is called again: whenever loop() is about to call     *)
(* mqttClient.loop(), a subscribe attempt has been made since the last     *)
(* successful connect.                                                     *)
(***************************************************************************)
C2_ResubscribeBeforePump == pc = "loop_pump" => ~subPending

\* loop() has just re-subscribed, successfully, after reconnecting.
C2_Witness ==
    /\ pc = "loop_pump" /\ brokerUp /\ subscribed
    /\ Len(ev) = 1 /\ ev[1].op = "sub" /\ ev[1].ok

(***************************************************************************)
(* C3. For an inbound (topic, message) pair other than the four recognized *)
(* ones, mqttCommandReceived() makes no publish attempt and leaves the LED *)
(* pin, previousLEDValue and previousA0Value unchanged.                    *)
(***************************************************************************)
C3_UnknownCommandNoEffect ==
    [][ (DispatchStep /\ <<ev'[1].topic, CStr(ev'[1].payload)>> \notin Recognized)
          => /\ Ops(ev', "pub") = {} /\ Ops(ev', "write") = {}
             /\ ledPin' = ledPin
             /\ previousLEDValue' = previousLEDValue
             /\ previousA0Value' = previousA0Value ]_vars

\* The right topic with a message that is none of "get", "on", "off" was dispatched.
C3_Witness ==
    /\ pc = "loop_statusA0" /\ Len(ev) = 1 /\ ev[1].op = "recv"
    /\ ev[1].topic = commandLED
    /\ <<ev[1].topic, CStr(ev[1].payload)>> \notin Recognized

(***************************************************************************)
(* C4. One invocation of mqttCommandReceived() performs at most one write  *)
(* to the LED pin and at most one publish attempt.                         *)
(***************************************************************************)
C4_AtMostOneWriteOnePublish ==
    Ops(ev, "recv") # {} =>
        /\ Cardinality(Ops(ev, "recv")) = 1
        /\ Cardinality(Ops(ev, "write")) <= 1
        /\ Cardinality(Ops(ev, "pub")) <= 1

\* A command that did both: one write and one publish attempt.
C4_Witness ==
    /\ Ops(ev, "recv") # {}
    /\ Cardinality(Ops(ev, "write")) = 1
    /\ Cardinality(Ops(ev, "pub")) = 1

(***************************************************************************)
(* C5. With the LED off and previousLEDValue LOW, a dispatched "on"        *)
(* command sets the LED pin HIGH and the dispatcher makes exactly one      *)
(* publish attempt, of "on" on the LED status topic. Once "on" has been    *)
(* published (by the dispatcher, or by a later attempt when that one       *)
(* failed), no periodic check attempts an LED publish while the LED stays  *)
(* on; until then every periodic LED check attempts it again.              *)
(***************************************************************************)
\* The step dispatches "on" on the LED command topic with the LED off and
\* previousLEDValue LOW.
LightingStep ==
    /\ DispatchStep
    /\ <<ev'[1].topic, CStr(ev'[1].payload)>> = <<commandLED, CStr(StrOn)>>
    /\ ledPin = LOW /\ previousLEDValue = LOW

C5_OnPublishedOnceOrRetried ==
    [][ /\ LightingStep =>
             /\ ledPin' = HIGH
             /\ Cardinality(Ops(ev', "pub")) = 1
             /\ \A i \in Ops(ev', "pub") :
                   ev'[i].topic = statusLEDTopic /\ ev'[i].payload = CStr(StrOn)
             /\ previousLEDValue' = (IF PubOk(ev', "LED") THEN HIGH ELSE LOW)
        /\ (CheckLEDStep /\ lit = "acked") => Ops(ev', "pub") = {}
        /\ (CheckLEDStep /\ lit = "unacked") => PubTried(ev', "LED") ]_vars

\* The claim as stated: the dispatcher publishes "on", and no periodic check
\* that follows publishes the LED status while the LED stays on.
C5_Original ==
    [][ /\ LightingStep => (ledPin' = HIGH /\ PubOk(ev', "LED"))
        /\ (CheckLEDStep /\ lit # "no") => Ops(ev', "pub") = {} ]_vars

\* A periodic LED check has just run, without publishing, on an LED that an
\* "on" command lit and reported.
C5_Witness ==
    /\ lit = "acked" /\ ledPin = HIGH /\ pc = "loop_check"
    /\ Len(ev) = 1 /\ ev[1].op = "readLED"

(***************************************************************************)
(* C6. In mqttCheckAndReportStatus(), when the A0 reading differs from     *)
(* previousA0Value by at most 100, no publish is attempted and             *)
(* previousA0Value is unchanged; when it differs by more than 100, exactly *)
(* one A0 publish is attempted, and previousA0Value becomes the value that *)
(* publish carries (the reading mqttPublishA0Status() takes itself) if it  *)
(* succeeds and is unchanged if it fails.                                  *)
(***************************************************************************)
C6_ThresholdPublish ==
    [][ CheckA0Step =>
          LET current == ev'[1].val
          IN  /\ ev'[1].op = "readA0"
              /\ Abs(current - previousA0Value) <= 100 =>
                    /\ Ops(ev', "pub") = {}
                    /\ previousA0Value' = previousA0Value
              /\ Abs(current - previousA0Value) > 100 =>
                    /\ Cardinality(Ops(ev', "pub")) = 1
                    /\ \A i \in Ops(ev', "pub") :
                          /\ ev'[i].topic = statusA0Topic
                          /\ previousA0Value' =
                                IF ev'[i].ok THEN atoi(ev'[i].payload)
                                ELSE previousA0Value ]_vars

\* The claim as stated: beyond the threshold one publish occurs and
\* previousA0Value is updated to the new reading.
C6_Original ==
    [][ CheckA0Step =>
          LET current == ev'[1].val
          IN  /\ Abs(current - previousA0Value) <= 100 =>
                    /\ Ops(ev', "pub") = {}
                    /\ previousA0Value' = previousA0Value
              /\ Abs(current - previousA0Value) > 100 =>
                    /\ Cardinality(Ops(ev', "pub")) = 1
                    /\ previousA0Value' = current ]_vars

\* A check whose reading was beyond the threshold has published "1023", which
\* previousA0Value now holds.
C6_Witness ==
    /\ pc = "loop_statusLED" /\ Len(ev) = 2
    /\ ev[1].op = "readA0" /\ ev[2].op = "pub" /\ ev[2].ok
    /\ previousA0Value = 1023 /\ ev[2].payload = <<49, 48, 50, 51>>

(***************************************************************************)
(* C7. When a status publish made by the periodic check fails, the cached  *)
(* previous value is left unchanged; and if the pin reading is the same at *)
(* the next mqttCheckAndReportStatus() call and no publish of that status  *)
(* has succeeded in between, that call attempts the publish again.         *)
(***************************************************************************)
C7_FailedCheckRetried ==
    [][ /\ (CheckA0Step /\ PubTried(ev', "A0") /\ ~PubOk(ev', "A0"))
              => previousA0Value' = previousA0Value
        /\ (CheckLEDStep /\ PubTried(ev', "LED") /\ ~PubOk(ev', "LED"))
              => previousLEDValue' = previousLEDValue
        /\ (CheckA0Step /\ chkA0.failed /\ ev'[1].val = chkA0.read /\ ~okSince["A0"])
              => PubTried(ev', "A0")
        /\ (CheckLEDStep /\ chkLED.failed /\ ev'[1].val = chkLED.read /\ ~okSince["LED"])
              => PubTried(ev', "LED") ]_vars

\* The claim as stated: the same reading at the next call is enough.
C7_Original ==
    [][ /\ (CheckA0Step /\ PubTried(ev', "A0") /\ ~PubOk(ev', "A0"))
              => previousA0Value' = previousA0Value
        /\ (CheckLEDStep /\ PubTried(ev', "LED") /\ ~PubOk(ev', "LED"))
              => previousLEDValue' = previousLEDValue
        /\ (CheckA0Step /\ chkA0.failed /\ ev'[1].val = chkA0.read)
              => PubTried(ev', "A0")
        /\ (CheckLEDStep /\ chkLED.failed /\ ev'[1].val = chkLED.read)
              => PubTried(ev', "LED") ]_vars

\* An A0 check has just published on the reading on which the check before it
\* had failed to publish.
C7_Witness ==
    /\ pc = "loop_statusLED" /\ chkA0.retry
    /\ Len(ev) = 2 /\ ev[2].op = "pub" /\ ev[2].ok

(***************************************************************************)
(* C8. Whenever a status publish fails, those of setup() and those made in *)
(* answer to a "get" command included, the next periodic check of that     *)
(* status attempts the publish again.                                      *)
(***************************************************************************)
C8_Original ==
    [][ /\ (CheckA0Step /\ (pubFailed["A0"] \/ chkA0.failed)) => PubTried(ev', "A0")
        /\ (CheckLEDStep /\ (pubFailed["LED"] \/ chkLED.failed)) => PubTried(ev', "LED")
      ]_vars

(***************************************************************************)
(* C9. If the WiFi link drops after setup() has completed, the program     *)
(* eventually runs the WiFi association again, and if the broker link      *)
(* drops, it eventually runs the broker connect again.                     *)
(***************************************************************************)
SetupDone ==
    pc \in {"loop_check", "loop_connect", "loop_sub", "loop_pump",
            "loop_statusA0", "loop_statusLED"}

InConnectWiFi == pc \in {"setup_wifi", "wifi_poll"}

InConnectBroker == pc \in {"setup_connect", "loop_connect"}

C9_Original ==
    /\ (SetupDone /\ ~wifiUp) ~> InConnectWiFi
    /\ (SetupDone /\ ~brokerUp) ~> InConnectBroker

\* The half of C9 that is about the broker link.
C9_BrokerReconnect == (SetupDone /\ ~brokerUp) ~> InConnectBroker

(***************************************************************************)
(* C10. connectMQTTBroker() returns only in a state where the client       *)
(* reports connected, however many attempts that takes; and when the WiFi  *)
(* link is up again and again, so that the broker can accept an attempt,   *)
(* every call of it returns.                                               *)
(***************************************************************************)
C10_ConnectUntilConnected ==
    /\ [][ (InConnectBroker /\ pc' # pc) => (brokerUp' /\ ~InConnectBroker') ]_vars
    /\ ([]<>wifiUp) => (InConnectBroker ~> ~InConnectBroker)

\* connectMQTTBroker(), called by loop(), has returned connected after as many
\* failed attempts as the model counts.
C10_Witness == pc = "loop_sub" /\ brokerUp /\ connectAttempts = MaxAttempts

(***************************************************************************)
(* C11. If the WiFi hardware is absent when connectWiFiNetwork() runs, the *)
(* program halts forever in that function: it never leaves the check of    *)
(* line 164, no step of any kind follows the halt, and there has been no   *)
(* WiFi association, broker connect, publish, subscribe or dispatch.       *)
(***************************************************************************)
C11_HaltsWithoutModule ==
    ~wifiModule =>
        /\ pc \in {"setup_wifi", "halt"}
        /\ ~wifiUp /\ ~brokerUp /\ ~subscribed /\ ~subPending
        /\ connectAttempts = 0
        /\ ev = <<>>
        /\ ledPin = LOW /\ previousLEDValue = LOW /\ previousA0Value = 0
        /\ pc = "halt" => ~ENABLED Next

\* The sketch is stuck in the while (true) of line 166.
C11_Witness == pc = "halt" /\ ~wifiModule

(***************************************************************************)
(* C12. previousA0Value and previousLEDValue change only in a step in      *)
(* which a publish of the corresponding status succeeds, and at all times  *)
(* each equals the value carried by the most recent successful publish of  *)
(* its topic, or its initial value (0, LOW) when none has succeeded yet.   *)
(***************************************************************************)
\* The pin level an LED status payload stands for.
LEDLevel(payload) == IF payload = CStr(StrOn) THEN HIGH ELSE LOW

C12_CacheIsLastPublished ==
    /\ [](/\ previousA0Value =
                IF lastPub["A0"] = <<>> THEN 0 ELSE atoi(lastPub["A0"])
          /\ previousLEDValue =
                IF lastPub["LED"] = <<>> THEN LOW ELSE LEDLevel(lastPub["LED"])
          /\ lastPub["LED"] \in {<<>>, CStr(StrOn), CStr(StrOff)})
    /\ [][ /\ previousA0Value' # previousA0Value => PubOk(ev', "A0")
           /\ previousLEDValue' # previousLEDValue => PubOk(ev', "LED") ]_vars

\* Both globals hold published values other than their initial ones, and the
\* step just made is a publish attempt that failed and changed neither.
C12_Witness ==
    /\ previousA0Value = 101 /\ lastPub["A0"] = <<49, 48, 49>>
    /\ previousLEDValue = HIGH /\ lastPub["LED"] = CStr(StrOn)
    /\ \E i \in DOMAIN ev : ev[i].op = "pub" /\ ~ev[i].ok

(***************************************************************************)
(* C13. Dispatching "get" on the LED command topic makes one retained      *)
(* publish attempt on the LED status topic, of "on" if the pin is HIGH and *)
(* of "off" otherwise, and neither writes nor changes the LED pin; with    *)
(* the LED off since boot, "off" is published and the LED is still off.    *)
(***************************************************************************)
\* The step dispatches "get" on the LED command topic.
LEDGetStep ==
    /\ DispatchStep
    /\ <<ev'[1].topic, CStr(ev'[1].payload)>> = <<commandLED, CStr(StrGet)>>

C13_LEDGetLeavesPin ==
    [][ LEDGetStep =>
          /\ ledPin' = ledPin
          /\ Ops(ev', "write") = {}
          /\ Cardinality(Ops(ev', "pub")) = 1
          /\ \A i \in Ops(ev', "pub") :
                /\ ev'[i].topic = statusLEDTopic
                /\ ev'[i].val = 1
                /\ ev'[i].payload = IF ledPin = HIGH THEN <<111, 110>>
                                    ELSE <<111, 102, 102>>
                /\ previousLEDValue' = IF ev'[i].ok THEN ledPin ELSE previousLEDValue
          /\ previousA0Value' = previousA0Value ]_vars

\* "get" was dispatched with the LED off: "off", which setup() had published
\* before, has been published again and the LED is off.
C13_Witness ==
    /\ pc = "loop_statusA0" /\ Len(ev) = 2
    /\ ev[1].op = "recv" /\ ev[1].topic = commandLED
    /\ CStr(ev[1].payload) = CStr(StrGet)
    /\ ev[2].op = "pub" /\ ev[2].ok /\ ev[2].payload = <<111, 102, 102>>
    /\ ledPin = LOW /\ previousLEDValue = LOW

(***************************************************************************)
(* C14. setup() runs its steps in the order: connect WiFi, connect broker, *)
(* attempt the initial A0 publish, attempt the initial LED publish,        *)
(* subscribe to commands; loop() is entered only from the last of them, so *)
(* no command is dispatched before both initial publishes were attempted.  *)
(***************************************************************************)
\* Exactly one call of the library was made in the step, a publish or a
\* subscribe (op) on topic.
OnlyCall(events, op, topic) ==
    /\ Len(events) = 1
    /\ events[1].op = op /\ events[1].topic = topic

C14_SetupOrder ==
    [][ /\ (pc = "setup_wifi" /\ pc' # pc) => pc' \in {"wifi_poll", "halt"}
        /\ (pc = "wifi_poll" /\ pc' # pc) => (pc' = "setup_connect" /\ wifiUp)
        /\ (pc = "setup_connect" /\ pc' # pc) => (pc' = "setup_pubA0" /\ brokerUp')
        /\ pc \in {"setup_wifi", "wifi_poll", "setup_connect", "halt"} => ev' = <<>>
        /\ pc = "setup_pubA0" =>
              (ev' = <<>> /\ pc' = pc)
              \/ (pc' = "setup_pubLED" /\ OnlyCall(ev', "pub", statusA0Topic))
        /\ pc = "setup_pubLED" =>
              (ev' = <<>> /\ pc' = pc)
              \/ (pc' = "setup_sub" /\ OnlyCall(ev', "pub", statusLEDTopic))
        /\ pc = "setup_sub" =>
              (ev' = <<>> /\ pc' = pc)
              \/ (pc' = "loop_check" /\ OnlyCall(ev', "sub", commandFilter))
        /\ SetupDone' => (SetupDone \/ pc = "setup_sub")
        /\ DispatchStep => SetupDone ]_vars

\* setup() has just returned: its subscribe succeeded, after both initial
\* publishes.
C14_Witness ==
    /\ pc = "loop_check" /\ OnlyCall(ev, "sub", commandFilter) /\ ev[1].ok
    /\ lastPub["A0"] # <<>> /\ lastPub["LED"] = CStr(StrOff)
    /\ brokerUp /\ subscribed

(***************************************************************************)
(* C15. A change of a latch causes one publish attempt per iteration of    *)
(* loop() for that latch: when the LED publish the dispatcher makes for an *)
(* "on"/"off" command fails, the next attempt is made in the next          *)
(* iteration, so the LED check of the same iteration attempts none.        *)
(***************************************************************************)
C15_Original ==
    [][ (CheckLEDStep /\ dispatched = "LED" /\ pubFailed["LED"])
           => ~PubTried(ev', "LED") ]_vars

(***************************************************************************)
(* C16. Whenever loop() calls mqttClient.loop() with the broker link up,   *)
(* the device holds an active subscription to <client_id>/command/#, also  *)
(* when a subscribe call can fail while the connection stays up.           *)
(***************************************************************************)
C16_Original == (pc = "loop_pump" /\ brokerUp) => subscribed

(***************************************************************************)
(* C17. The A0 value a periodic check publishes is the reading that was    *)
(* compared against the threshold, so every successful A0 publish made by  *)
(* mqttCheckAndReportStatus() moves previousA0Value by more than 100; the  *)
(* analog input may change between any two reads of the pin.               *)
(***************************************************************************)
C17_Original ==
    [][ (CheckA0Step /\ PubOk(ev', "A0")) =>
          /\ \A i \in Pubs(ev', "A0") : atoi(ev'[i].payload) = ev'[1].val
          /\ Abs(previousA0Value' - previousA0Value) > 100 ]_vars

(***************************************************************************)
(* C18. In a run where every publish attempt succeeds, at the end of every *)
(* iteration of loop() previousLEDValue equals the LED pin and the last A0 *)
(* reading taken in the iteration is within 100 of previousA0Value, also   *)
(* when the input drifts by less than the threshold in each iteration:     *)
(* this holds after the A0 check, whose reading is the last of the         *)
(* iteration, and the LED check that ends the iteration keeps it.          *)
(***************************************************************************)
\* The last A0 reading taken by a step of the A0 check: the one published
\* if mqttPublishA0Status() was called (line 272), else that of line 201.
LastA0Reading(events) ==
    IF PubTried(events, "A0")
    THEN atoi(events[CHOOSE i \in Pubs(events, "A0") : TRUE].payload)
    ELSE events[1].val

C18_SettledWhenPublishesSucceed ==
    [][ /\ (CheckA0Step /\ allOk') =>
              Abs(LastA0Reading(ev') - previousA0Value') <= 100
        /\ pc = "loop_statusLED" => previousA0Value' = previousA0Value
        /\ (CheckLEDStep /\ allOk') => previousLEDValue' = ledPin' ]_vars

\* No publish has failed, the LED was switched on, and the A0 check has just
\* read 100 with previousA0Value 0, a drift that stays unpublished.
C18_Witness ==
    /\ pc = "loop_statusLED" /\ allOk
    /\ Len(ev) = 1 /\ ev[1].op = "readA0" /\ ev[1].val = 100
    /\ previousA0Value = 0 /\ lastPub["A0"] = <<48>>
    /\ ledPin = HIGH /\ previousLEDValue = HIGH

(***************************************************************************)
(* C19. Every publish the device makes is retained and goes to             *)
(* <client_id>/status/A0 or <client_id>/status/LED, never to a topic that  *)
(* matches its own subscription <client_id>/command/#, the only filter it  *)
(* subscribes to and under which every dispatched message arrived: a       *)
(* publish of the device is never dispatched to its own dispatcher.        *)
(***************************************************************************)
C19_PublishesOutsideSubscription ==
    /\ \A i \in Ops(ev, "pub") :
          /\ ev[i].val = 1
          /\ ev[i].topic \in {<<"Arduino", "status", "A0">>,
                              <<"Arduino", "status", "LED">>}
          /\ ~Matches(ev[i].topic, commandFilter)
    /\ \A i \in Ops(ev, "sub") :
          ev[i].topic = <<"Arduino", "command", "#">>
    /\ \A i \in Ops(ev, "recv") :
          /\ Matches(ev[i].topic, <<"Arduino", "command", "#">>)
          /\ ev[i].topic \notin {statusA0Topic, statusLEDTopic}

\* A "get" on the A0 command topic was dispatched and answered by a retained
\* publish on the A0 status topic.
C19_Witness ==
    /\ pc = "loop_statusA0" /\ Len(ev) = 2
    /\ ev[1].op = "recv" /\ ev[1].topic = commandA0
    /\ ev[2].op = "pub" /\ ev[2].ok /\ ev[2].val = 1
    /\ ev[2].topic = statusA0Topic

====
